---- MODULE Spec2Model ----
(***************************************************************************)
(* Model of the miner game rules (procgen/src/games/miner.cpp): level      *)
(* construction, the push pre-step, the pickup and the falling-object      *)
(* scan of game_step, and the exit collision handler.  The grid and the    *)
(* agent live in the shared engine; the parts of the engine the rules      *)
(* call (get_obj, set_obj, the agent's grid move, collision dispatch, the  *)
(* per-step reset of step_data, the timeout) are modelled alongside.       *)
(***************************************************************************)
EXTENDS Integers, Sequences, FiniteSets, TLC

\* ---------------------------------------------------------------- bounds
\* Scaled-down world: choose_world_dim picks 10, 20 or 35.
main_width == 3
main_height == 3
\* Scaled-down object counts: game_reset takes 3% / 20% of the grid.
num_diamonds == 1
num_boulders == 2
\* Scaled-down step budget of one episode.
timeout == 3

main_area == main_height * main_width

Cells == 0 .. (main_area - 1)

\* ------------------------------------------------------------- constants
COMPLETION_BONUS == 10
DIAMOND_REWARD == 1

BOULDER == 1
DIAMOND == 2
MOVING_BOULDER == 3
MOVING_DIAMOND == 4
EXIT == 6
DIRT == 9
OOB_WALL == 10
SPACE == 100

out_of_bounds_object == OOB_WALL

Tags == {SPACE, DIRT, BOULDER, DIAMOND, MOVING_BOULDER, MOVING_DIAMOND}

\* --------------------------------------------------------- engine access
\* get_obj(idx): the tag stored at a flattened index, the out-of-bounds
\* tag outside the grid.
get_obj(g, idx) ==
    IF idx < 0 \/ idx >= main_area THEN out_of_bounds_object ELSE g[idx]

\* get_obj(x, y)
get_obj_xy(g, x, y) ==
    IF x < 0 \/ y < 0 \/ x >= main_width \/ y >= main_height
    THEN out_of_bounds_object
    ELSE g[y * main_width + x]

\* set_obj(idx, tag); a write outside the grid is dropped.
set_obj(g, idx, tag) ==
    IF idx < 0 \/ idx >= main_area THEN g ELSE [g EXCEPT ![idx] = tag]

\* set_obj(x, y, tag)
set_obj_xy(g, x, y, tag) ==
    IF x < 0 \/ y < 0 \/ x >= main_width \/ y >= main_height
    THEN g
    ELSE [g EXCEPT ![y * main_width + x] = tag]

\* get_cells_with_type(type)
get_cells_with_type(g, type) == {c \in Cells : g[c] = type}

\* ------------------------------------------------------------ tag helpers
get_moving_type(type) ==
    IF type = DIAMOND THEN MOVING_DIAMOND
    ELSE IF type = BOULDER THEN MOVING_BOULDER
    ELSE type

is_moving(type) == type = MOVING_BOULDER \/ type = MOVING_DIAMOND

get_stationary_type(type) ==
    IF type = MOVING_DIAMOND THEN DIAMOND
    ELSE IF type = MOVING_BOULDER THEN BOULDER
    ELSE type

is_round(type) ==
    type = BOULDER \/ type = MOVING_BOULDER \/ type = DIAMOND \/ type = MOVING_DIAMOND

\* The cells of a grid that hold a diamond, a boulder, a round object.
DiamondCells(g) == {c \in Cells : get_stationary_type(g[c]) = DIAMOND}

BoulderCells(g) == {c \in Cells : get_stationary_type(g[c]) = BOULDER}

RoundCells(g) == {c \in Cells : is_round(g[c])}

\* get_agent_index(): the agent stands on the centre of a cell, so its
\* position is kept as the integer cell coordinates.
get_agent_index(ax, ay) == ay * main_width + ax

\* is_free without the test of the agent's cell.
is_free_ignores_agent(g, idx, agent_index) == get_obj(g, idx) = SPACE

is_free(g, idx, agent_index) == get_obj(g, idx) = SPACE /\ agent_index # idx

\* is_blocked for the player
is_blocked(target) ==
    target = BOULDER \/ target = MOVING_BOULDER \/ target = OOB_WALL

\* ------------------------------------------------------------ the actions
\* set_action_xy: the engine decodes the move action into a direction,
\* the miner rules drop the vertical part of a diagonal.
set_action_xy(move_action) ==
    LET vx == (move_action \div 3) - 1
        vy == (move_action % 3) - 1
    IN  [action_vx |-> vx, action_vy |-> IF vx # 0 THEN 0 ELSE vy]

\* The engine's grid move of the agent: one cell in the chosen direction,
\* or no move and a zeroed velocity when the target cell blocks the player.
step_agent(g, ax, ay, act) ==
    LET target == get_obj_xy(g, ax + act.action_vx, ay + act.action_vy)
    IN  IF is_blocked(target)
        THEN [x |-> ax, y |-> ay, vx |-> 0, vy |-> 0]
        ELSE [x |-> ax + act.action_vx, y |-> ay + act.action_vy,
              vx |-> act.action_vx, vy |-> act.action_vy]

\* handle_agent_collision without the test of diamonds_remaining: the exit
\* pays out whenever it is touched.
handle_agent_collision_unchecked(sd, remaining) ==
    [reward |-> sd.reward + COMPLETION_BONUS,
     level_complete |-> TRUE,
     done |-> TRUE]

\* handle_agent_collision(obj) for obj->type == EXIT
handle_agent_collision(sd, remaining) ==
    IF remaining = 0
    THEN [reward |-> sd.reward + COMPLETION_BONUS,
          level_complete |-> TRUE,
          done |-> TRUE]
    ELSE sd

\* handle_push without the tests of the agent's column.
handle_push_no_edge_test(g, ax, ay, action_vx, agent_vx) ==
    LET agent_idx == get_agent_index(ax, ay)
    IN  IF action_vx = 1 /\ agent_vx = 0
           /\ get_obj(g, agent_idx + 1) = BOULDER
           /\ get_obj(g, agent_idx + 2) = SPACE
        THEN [grid |-> set_obj(set_obj(g, agent_idx + 1, SPACE), agent_idx + 2, BOULDER),
              x |-> ax + 1]
        ELSE IF action_vx = -1 /\ agent_vx = 0
                /\ get_obj(g, agent_idx - 1) = BOULDER
                /\ get_obj(g, agent_idx - 2) = SPACE
        THEN [grid |-> set_obj(set_obj(g, agent_idx - 1, SPACE), agent_idx - 2, BOULDER),
              x |-> ax - 1]
        ELSE [grid |-> g, x |-> ax]

\* handle_push: returns the grid and the agent's column after the push.
handle_push(g, ax, ay, action_vx, agent_vx) ==
    LET agent_idx == get_agent_index(ax, ay)
        agentx == agent_idx % main_width
    IN  IF action_vx = 1 /\ agent_vx = 0 /\ agentx < main_width - 2
           /\ get_obj(g, agent_idx + 1) = BOULDER
           /\ get_obj(g, agent_idx + 2) = SPACE
        THEN [grid |-> set_obj(set_obj(g, agent_idx + 1, SPACE), agent_idx + 2, BOULDER),
              x |-> ax + 1]
        ELSE IF action_vx = -1 /\ agent_vx = 0 /\ agentx > 1
                /\ get_obj(g, agent_idx - 1) = BOULDER
                /\ get_obj(g, agent_idx - 2) = SPACE
        THEN [grid |-> set_obj(set_obj(g, agent_idx - 1, SPACE), agent_idx - 2, BOULDER),
              x |-> ax - 1]
        ELSE [grid |-> g, x |-> ax]

\* The pickup with the reward also granted for DIRT.
pickup_reward_for_dirt(agent_obj) ==
    IF agent_obj = DIAMOND \/ agent_obj = DIRT THEN DIAMOND_REWARD ELSE 0

\* The agent's pickup (game_step, before the scan).
pickup_reward(agent_obj) == IF agent_obj = DIAMOND THEN DIAMOND_REWARD ELSE 0

pickup_grid(g, ax, ay) ==
    LET agent_obj == get_obj_xy(g, ax, ay)
    IN  IF agent_obj = DIRT \/ agent_obj = DIAMOND
        THEN set_obj_xy(g, ax, ay, SPACE)
        ELSE g

\* The pieces of one iteration of the scan loop of game_step.
\* The tally of diamonds_count.
tally(count, stat_type) == IF stat_type = DIAMOND THEN count + 1 ELSE count

\* The fall test with the negation of agent_is_below dropped.
can_fall_onto_agent(obj2, agent_is_below) == obj2 = SPACE /\ agent_is_below

\* The tests of the four arms, in the order the loop tries them.
can_fall(obj2, agent_is_below) == obj2 = SPACE /\ ~agent_is_below

\* The crush test without the test of the moving tag.
lands_on_agent_any_tag(obj, agent_is_below) == agent_is_below

lands_on_agent(obj, agent_is_below) == agent_is_below /\ is_moving(obj)

\* The left-roll test with the column bound off by one.
can_roll_left_off_by_one(g, idx, obj2, obj_x, agent_idx) ==
    /\ is_round(obj2)
    /\ obj_x > 1
    /\ is_free(g, idx - 1, agent_idx)
    /\ is_free(g, idx - main_width - 1, agent_idx)

can_roll_left(g, idx, obj2, obj_x, agent_idx) ==
    /\ is_round(obj2)
    /\ obj_x > 0
    /\ is_free(g, idx - 1, agent_idx)
    /\ is_free(g, idx - main_width - 1, agent_idx)

can_roll_right(g, idx, obj2, obj_x, agent_idx) ==
    /\ is_round(obj2)
    /\ obj_x < main_width - 1
    /\ is_free(g, idx + 1, agent_idx)
    /\ is_free(g, idx - main_width + 1, agent_idx)

\* The downward move without the clearing of idx.
move_down_keeps_source(g, idx, below_idx, obj) ==
    set_obj(g, below_idx, get_moving_type(obj))

\* The writes of the arms.
move_down(g, idx, below_idx, obj) ==
    set_obj(set_obj(g, idx, SPACE), below_idx, get_moving_type(obj))

roll_left(g, idx, obj) ==
    set_obj(set_obj(g, idx, SPACE), idx - 1, get_stationary_type(obj))

roll_right(g, idx, stat_type) ==
    set_obj(set_obj(g, idx, SPACE), idx + 1, stat_type)

\* The last arm without its write: a blocked object keeps its tag.
come_to_rest_keeps_tag(g, idx, stat_type) == g

\* The last arm writing the moving tag instead of the stationary one.
come_to_rest_as_moving(g, idx, stat_type) ==
    set_obj(g, idx, get_moving_type(stat_type))

come_to_rest(g, idx, stat_type) == set_obj(g, idx, stat_type)

\* One iteration of the scan loop of game_step, for cell idx.  s carries
\* the grid, step_data.done and diamonds_count; branch names the arm of
\* the conditional that ran (a position marker, not program state).
scan_cell(s, idx, agent_idx) ==
    LET g == s.grid
        obj == get_obj(g, idx)
        obj_x == idx % main_width
        stat_type == get_stationary_type(obj)
        cnt == tally(s.count, stat_type)
        below_idx == idx - main_width
        obj2 == get_obj(g, below_idx)
        agent_is_below == agent_idx = below_idx
    IN  IF ~(obj = BOULDER \/ obj = MOVING_BOULDER \/ obj = DIAMOND \/ obj = MOVING_DIAMOND)
        THEN [grid |-> g, done |-> s.done, count |-> cnt, branch |-> "skip"]
        ELSE IF can_fall(obj2, agent_is_below)
        THEN [grid |-> move_down(g, idx, below_idx, obj),
              done |-> s.done, count |-> cnt, branch |-> "fall"]
        ELSE IF lands_on_agent(obj, agent_is_below)
        THEN [grid |-> g, done |-> TRUE, count |-> cnt, branch |-> "crush"]
        ELSE IF can_roll_left(g, idx, obj2, obj_x, agent_idx)
        THEN [grid |-> roll_left(g, idx, obj),
              done |-> s.done, count |-> cnt, branch |-> "left"]
        ELSE IF can_roll_right(g, idx, obj2, obj_x, agent_idx)
        THEN [grid |-> roll_right(g, idx, stat_type),
              done |-> s.done, count |-> cnt, branch |-> "right"]
        ELSE [grid |-> come_to_rest(g, idx, stat_type),
              done |-> s.done, count |-> cnt, branch |-> "rest"]

\* The scan loop: idx = 0 .. main_area - 1 in ascending order.  The result
\* is the sequence of loop states: element 1 before cell 0 is visited,
\* element idx + 2 after cell idx was visited.
RECURSIVE scan_from(_, _, _)
scan_from(tr, idx, agent_idx) ==
    IF idx >= main_area THEN tr
    ELSE scan_from(Append(tr, scan_cell(tr[Len(tr)], idx, agent_idx)), idx + 1, agent_idx)

scan_loop(g, done, agent_idx) ==
    scan_from(<<[grid |-> g, done |-> done, count |-> 0, branch |-> "start"]>>, 0, agent_idx)

\* ------------------------------------------------------------------ state
VARIABLES
    pc,                  \* "constructed", "resetting", "playing", "over", "aborted"
    grid,                \* the engine's grid: cell index -> tag
    agent,               \* the agent entity: cell x, y and velocity
    exit_cell,           \* cell of the EXIT entity, -1 while there is none
    diamonds_remaining,  \* MinerGame::diamonds_remaining
    step_data,           \* reward, done, level_complete of the last step
    cur_time,            \* steps taken in the episode
    total_reward,        \* sum of step_data.reward over the episode
    tick,                \* record of the last game_step: its inputs, the
                         \* grids around handle_push and the scan's loop states
    big                  \* the BigFish game object: fish_eaten, r_inc, its
                         \* agent, its fish and a record of its last game_step

vars == <<pc, grid, agent, exit_cell, diamonds_remaining, step_data,
          cur_time, total_reward, tick, big>>

MoveActions == 0 .. 8

NoTick == [action_vx |-> 0, collided |-> FALSE, remaining |-> 0,
           agent_obj |-> SPACE, agent_pre |-> -1, agent_idx |-> -1,
           push_pre |-> <<>>, push_post |-> <<>>, scan |-> <<>>]

\* The BigFish object after construction (bigfish.cpp): fish_eaten = 0,
\* r_inc = 0, no agent and no fish yet.
NoBig == [fish_eaten |-> 0, r_inc |-> 0,
          agent |-> [x |-> 0, rx |-> 0, ry |-> 0, is_reflected |-> FALSE],
          fish |-> <<>>, last |-> <<>>]

\* State after construction: diamonds_remaining = 0, no level yet.
Init ==
    /\ pc = "constructed"
    /\ grid = [c \in Cells |-> SPACE]
    /\ agent = [x |-> 0, y |-> 0, vx |-> 0, vy |-> 0]
    /\ exit_cell = -1
    /\ diamonds_remaining = 0
    /\ step_data = [reward |-> 0, done |-> FALSE, level_complete |-> FALSE]
    /\ cur_time = 0
    /\ total_reward = 0
    /\ tick = NoTick
    /\ big = NoBig

\* The sets of n distinct cells simple_choose can draw.
CellSets(n) == {cs \in SUBSET Cells : Cardinality(cs) = n}

\* The replacement of adjacent boulders reduced to the agent's row.
clear_adjacent_row_only(g, agent_x, agent_y, k) ==
    LET l == IF get_obj_xy(g, agent_x - 1, agent_y) = BOULDER
             THEN set_obj_xy(g, agent_x - 1, agent_y, DIRT) ELSE g
    IN  IF get_obj_xy(l, agent_x + 1, agent_y) = BOULDER
        THEN set_obj_xy(l, agent_x + 1, agent_y, DIRT) ELSE l

\* The adjacent boulders of the agent's start cell become DIRT.
RECURSIVE clear_adjacent(_, _, _, _)
clear_adjacent(g, agent_x, agent_y, k) ==
    IF k >= 9 THEN g
    ELSE LET i == (k \div 3) - 1
             j == (k % 3) - 1
             ox == agent_x + i
             oy == agent_y + j
         IN  clear_adjacent(IF get_obj_xy(g, ox, oy) = BOULDER
                            THEN set_obj_xy(g, ox, oy, DIRT)
                            ELSE g,
                            agent_x, agent_y, k + 1)

\* The exit candidates without the test of the cell above.
exit_candidates_unfiltered(g, dirt_cells) == dirt_cells

\* The exit candidates of game_reset.
exit_candidates(g, dirt_cells) ==
    {cell \in dirt_cells :
        LET above_obj == get_obj(g, cell + main_width)
        IN  above_obj = DIRT \/ above_obj = out_of_bounds_object}

\* The start of game_reset, BasicAbstractGame::game_reset: the engine
\* drops the old level (grid, entities, agent, episode counters).  The
\* rest of game_reset runs next; nothing else can run in between.  The
\* outputs of the step that ended the episode have gone to the caller;
\* every step clears step_data before it runs, so they are dropped here.
engine_reset ==
    /\ pc \in {"constructed", "over"} \/ (pc = "playing" /\ cur_time >= timeout)
    /\ pc' = "resetting"
    /\ grid' = [c \in Cells |-> SPACE]
    /\ agent' = [x |-> 0, y |-> 0, vx |-> 0, vy |-> 0]
    /\ exit_cell' = -1
    /\ cur_time' = 0
    /\ total_reward' = 0
    /\ tick' = NoTick
    /\ step_data' = [reward |-> 0, done |-> FALSE, level_complete |-> FALSE]
    /\ UNCHANGED <<diamonds_remaining, big>>

\* The rest of game_reset: obj_idxs[0] is the agent's cell, the next
\* num_diamonds entries the diamonds, the rest the boulders (simple_choose
\* draws distinct cells).
game_reset ==
    /\ pc = "resetting"
    /\ \E a \in Cells, ds \in CellSets(num_diamonds), bs \in CellSets(num_boulders) :
          /\ a \notin ds \cup bs
          /\ ds \cap bs = {}
          /\ LET agent_x == a % main_width
                 agent_y == a \div main_width
                 g1 == [c \in Cells |-> IF c \in ds THEN DIAMOND
                                        ELSE IF c \in bs THEN BOULDER
                                        ELSE DIRT]
                 dirt_cells == get_cells_with_type(g1, DIRT)
                 g2 == set_obj_xy(g1, agent_x, agent_y, SPACE)
                 g3 == clear_adjacent(g2, agent_x, agent_y, 0)
                 cands == exit_candidates(g3, dirt_cells)
             IN  /\ agent' = [agent EXCEPT !.x = agent_x, !.y = agent_y]
                 /\ IF cands = {}
                    THEN /\ pc' = "aborted"
                         /\ grid' = g3
                         /\ exit_cell' = -1
                    ELSE /\ pc' = "playing"
                         /\ \E e \in cands :
                               /\ grid' = set_obj(g3, e, SPACE)
                               /\ exit_cell' = e
    /\ UNCHANGED <<diamonds_remaining, step_data, cur_time, total_reward, tick, big>>

\* game_step with one move action.  The engine part runs first: step_data
\* is cleared, the agent is moved on the grid and a collision with the
\* EXIT entity is dispatched; then the miner rules: handle_push, the pickup, the scan, diamonds_remaining.
game_step_result(g, ag, exit, remaining, move_action) ==
    LET act == set_action_xy(move_action)
        moved == step_agent(g, ag.x, ag.y, act)
        collided == get_agent_index(moved.x, moved.y) = exit
        sd0 == [reward |-> 0, done |-> FALSE, level_complete |-> FALSE]
        sd1 == IF collided THEN handle_agent_collision(sd0, remaining) ELSE sd0
        pushed == handle_push(g, moved.x, moved.y, act.action_vx, moved.vx)
        agent_obj == get_obj_xy(pushed.grid, pushed.x, moved.y)
        sd2 == [sd1 EXCEPT !.reward = @ + pickup_reward(agent_obj)]
        g2 == pickup_grid(pushed.grid, pushed.x, moved.y)
        agent_idx == get_agent_index(pushed.x, moved.y)
        tr == scan_loop(g2, sd2.done, agent_idx)
        last == tr[Len(tr)]
    IN  [grid |-> last.grid,
         agent |-> [x |-> pushed.x, y |-> moved.y, vx |-> moved.vx,
                    vy |-> moved.vy],
         step_data |-> [sd2 EXCEPT !.done = last.done],
         diamonds_remaining |-> last.count,
         tick |-> [action_vx |-> act.action_vx, collided |-> collided,
                   remaining |-> remaining,
                   agent_obj |-> agent_obj,
                   agent_pre |-> get_agent_index(ag.x, ag.y), agent_idx |-> agent_idx,
                   push_pre |-> g, push_post |-> pushed.grid, scan |-> tr]]

game_step(move_action) ==
    /\ pc = "playing"
    /\ cur_time < timeout
    /\ \E r \in {game_step_result(grid, agent, exit_cell, diamonds_remaining, move_action)} :
          /\ grid' = r.grid
          /\ agent' = r.agent
          /\ step_data' = r.step_data
          /\ diamonds_remaining' = r.diamonds_remaining
          /\ total_reward' = total_reward + r.step_data.reward
          /\ pc' = IF r.step_data.done THEN "over" ELSE "playing"
          /\ tick' = r.tick
    /\ cur_time' = cur_time + 1
    /\ UNCHANGED <<exit_cell, big>>

Next == engine_reset \/ game_reset \/ \E m \in MoveActions : game_step(m)

Spec == Init /\ [][Next]_vars

TypeOK ==
    /\ pc \in {"constructed", "resetting", "playing", "over", "aborted"}
    /\ grid \in [Cells -> Tags]
    /\ agent.x \in 0 .. (main_width - 1)
    /\ agent.y \in 0 .. (main_height - 1)
    /\ diamonds_remaining \in Nat

\* ---------------------------------------------------- game_step on any grid
\* A second specification applies game_step to every bounded grid rather
\* than to the grids a bounded episode reaches: at most MaxRound round
\* objects and MaxDirt dirt cells, the agent on a cell it can stand on, the
\* exit on one of the first cells of the bottom row that holds no dirt
\* (the agent on it only while diamonds remain: with none the collision
\* has ended the episode), ScanTicks steps before the timeout.
MaxRound == 2
MaxDirt == 1
ScanTicks == 1
MaxExitCell == 1

RoundTags == {BOULDER, DIAMOND, MOVING_BOULDER, MOVING_DIAMOND}

CellSetsUpTo(n) == {cs \in SUBSET Cells : Cardinality(cs) <= n}

\* A moving tag marks an object that fell into its cell in the last scan:
\* the cell above it exists and was emptied, so it holds no dirt.
MovingTagsPlaced(g) ==
    \A c \in Cells :
        is_moving(g[c]) =>
            /\ c + main_width < main_area
            /\ g[c + main_width] # DIRT

InitScan ==
    /\ pc = "playing"
    /\ cur_time = timeout - ScanTicks
    /\ \E rs \in CellSetsUpTo(MaxRound), ds \in CellSetsUpTo(MaxDirt) :
          /\ rs \cap ds = {}
          /\ \E tg \in [rs -> RoundTags] :
                grid = [c \in Cells |-> IF c \in rs THEN tg[c]
                                        ELSE IF c \in ds THEN DIRT
                                        ELSE SPACE]
    /\ MovingTagsPlaced(grid)
    /\ \E a \in Cells :
          /\ grid[a] \in {SPACE, DIAMOND}
          /\ agent = [x |-> a % main_width, y |-> a \div main_width, vx |-> 0, vy |-> 0]
    /\ exit_cell \in {c \in 0 .. MaxExitCell : grid[c] # DIRT}
    /\ diamonds_remaining = Cardinality(DiamondCells(grid))
    /\ (get_agent_index(agent.x, agent.y) = exit_cell) => diamonds_remaining > 0
    /\ step_data = [reward |-> 0, done |-> FALSE, level_complete |-> FALSE]
    /\ total_reward = 0
    /\ tick = NoTick
    /\ big = NoBig

NextScan == \E m \in MoveActions : game_step(m)

SpecScan == InitScan /\ [][NextScan]_vars

\* The falling-boulder scenario: an empty grid but for one stationary
\* boulder two rows above the bottom row, the agent in another column,
\* three steps before the timeout.
InitFall ==
    /\ pc = "playing"
    /\ cur_time = timeout - 3
    /\ \E b \in Cells :
          /\ b \div main_width = 2
          /\ grid = [c \in Cells |-> IF c = b THEN BOULDER ELSE SPACE]
          /\ \E a \in Cells :
                /\ a % main_width # b % main_width
                /\ agent = [x |-> a % main_width, y |-> a \div main_width,
                            vx |-> 0, vy |-> 0]
    /\ exit_cell \in 0 .. MaxExitCell
    /\ diamonds_remaining = 0
    /\ get_agent_index(agent.x, agent.y) # exit_cell
    /\ step_data = [reward |-> 0, done |-> FALSE, level_complete |-> FALSE]
    /\ total_reward = 0
    /\ tick = NoTick
    /\ big = NoBig

SpecFall == InitFall /\ [][NextScan]_vars

\* ------------------------------------------------------- reading the state
\* A game_step has run in this episode.
Ticked == tick.scan # <<>>

\* The grid when the scan starts, just before and just after it visits idx.
ScanStart == tick.scan[1].grid

BeforeVisit(idx) == tick.scan[idx + 1].grid

AfterVisit(idx) == tick.scan[idx + 2].grid

Branch(idx) == tick.scan[idx + 2].branch

\* The scan signalled that a falling object landed on the agent.
Crushed == \E idx \in Cells : Branch(idx) = "crush"

\* "Free" for the scan: SPACE and not the agent's cell.
FreeAt(g, c) == c \in Cells /\ g[c] = SPACE /\ c # tick.agent_idx

\* ------------------------------------------------------------------ claims
\* C1: one scan of game_step leaves the number of round cells, of
\* boulder-family cells and of diamond-family cells unchanged, and so does
\* handle_push.
C1_RoundObjectsConserved ==
    Ticked =>
        /\ Cardinality(RoundCells(grid)) = Cardinality(RoundCells(ScanStart))
        /\ Cardinality(BoulderCells(grid)) = Cardinality(BoulderCells(ScanStart))
        /\ Cardinality(DiamondCells(grid)) = Cardinality(DiamondCells(ScanStart))
        /\ Cardinality(BoulderCells(tick.push_post)) = Cardinality(BoulderCells(tick.push_pre))
        /\ Cardinality(DiamondCells(tick.push_post)) = Cardinality(DiamondCells(tick.push_pre))

\* C1 witness: a step in which handle_push moved a boulder and the scan then
\* moved an object.
C1_Witness ==
    /\ Ticked
    /\ tick.push_post # tick.push_pre
    /\ \E idx \in Cells : Branch(idx) \in {"fall", "left", "right"}

\* C2 (as claimed): after every game_step diamonds_remaining is the number
\* of cells holding DIAMOND or MOVING_DIAMOND.
C2_TallyEqualsDiamondCells ==
    Ticked => diamonds_remaining = Cardinality(DiamondCells(grid))

\* C3 (as claimed): a round object whose cell below is free when the scan
\* starts is one row lower, with its moving tag, when the tick ends.
C3_FreeBelowAtStartFalls ==
    Ticked =>
        \A idx \in Cells :
            (is_round(ScanStart[idx]) /\ FreeAt(ScanStart, idx - main_width))
                => grid[idx - main_width] = get_moving_type(ScanStart[idx])

\* C3 (amended): a round object whose cell below is free at the moment the
\* scan visits it is moved by that visit one row down in the same column
\* with its moving tag, leaves its own cell empty, changes no other cell,
\* and is still one row down when the tick ends.
C3_FreeBelowWhenVisitedFalls ==
    Ticked =>
        \A idx \in Cells :
            LET g == BeforeVisit(idx)
                h == AfterVisit(idx)
            IN  (is_round(g[idx]) /\ FreeAt(g, idx - main_width))
                    => /\ h[idx - main_width] = get_moving_type(g[idx])
                       /\ h[idx] = SPACE
                       /\ \A c \in Cells \ {idx, idx - main_width} : h[c] = g[c]
                       /\ grid[idx - main_width] = get_moving_type(g[idx])

\* C3 witness: a stationary object with a free cell below was visited and
\* fell.
C3_Witness ==
    /\ Ticked
    /\ \E idx \in Cells :
          /\ BeforeVisit(idx)[idx] \in {BOULDER, DIAMOND}
          /\ FreeAt(BeforeVisit(idx), idx - main_width)
          /\ grid[idx - main_width] \in {MOVING_BOULDER, MOVING_DIAMOND}

\* C4 (as claimed): a tick in which the scan signals a crush adds no
\* completion bonus and does not set level_complete.
C4_CrushGivesNoBonus ==
    (Ticked /\ Crushed) =>
        /\ ~step_data.level_complete
        /\ step_data.reward < COMPLETION_BONUS

\* C5: a collision with the exit while diamonds_remaining = 0 sets done and
\* level_complete and adds COMPLETION_BONUS once; the episode ends with it,
\* so the bonus is in the episode's reward once.  While diamonds_remaining
\* > 0 the collision adds nothing and sets nothing.
C5_ExitCollision ==
    Ticked =>
        /\ (tick.collided /\ tick.remaining = 0) =>
              /\ step_data.done
              /\ step_data.level_complete
              /\ step_data.reward = COMPLETION_BONUS + pickup_reward(tick.agent_obj)
              /\ pc = "over"
        /\ (tick.collided /\ tick.remaining > 0) =>
              /\ ~step_data.level_complete
              /\ step_data.reward = pickup_reward(tick.agent_obj)
              /\ step_data.done = Crushed
        /\ step_data.level_complete => (tick.collided /\ tick.remaining = 0)

\* C5 witness: the agent reached the exit with diamonds_remaining = 0.
C5_Witness ==
    /\ Ticked
    /\ tick.collided
    /\ tick.remaining = 0
    /\ step_data.level_complete

\* The only round object of grid g is one with tag t in cell c.
OnlyRound(g, c, t) == c \in Cells /\ g = [d \in Cells |-> IF d = c THEN t ELSE SPACE]

\* The agent was outside the column of cell b before and after its move.
AgentOutsideColumn(b) ==
    /\ tick.agent_pre % main_width # b % main_width
    /\ tick.agent_idx % main_width # b % main_width

\* C6 (as claimed): on an otherwise empty grid, with the agent outside its
\* column, a stationary boulder with two free cells below it (the lower one
\* on the bottom row) is MOVING_BOULDER one row down after the first tick
\* and BOULDER on the bottom row after the second.
C6_BoulderFallsTwoRows ==
    Ticked =>
        \A b \in Cells :
            (b \div main_width = 2 /\ AgentOutsideColumn(b)) =>
                /\ OnlyRound(tick.push_pre, b, BOULDER)
                      => OnlyRound(grid, b - main_width, MOVING_BOULDER)
                /\ OnlyRound(tick.push_pre, b - main_width, MOVING_BOULDER)
                      => OnlyRound(grid, b - 2 * main_width, BOULDER)

\* C6 (amended): the boulder is MOVING_BOULDER one row down after the first
\* tick, MOVING_BOULDER on the bottom row after the second, and BOULDER on
\* the bottom row after the third.
C6_BoulderFallsThenRests ==
    Ticked =>
        \A b \in Cells :
            (b \div main_width = 2 /\ AgentOutsideColumn(b)) =>
                /\ OnlyRound(tick.push_pre, b, BOULDER)
                      => OnlyRound(grid, b - main_width, MOVING_BOULDER)
                /\ OnlyRound(tick.push_pre, b - main_width, MOVING_BOULDER)
                      => OnlyRound(grid, b - 2 * main_width, MOVING_BOULDER)
                /\ OnlyRound(tick.push_pre, b - 2 * main_width, MOVING_BOULDER)
                      => OnlyRound(grid, b - 2 * main_width, BOULDER)

\* C6 witness: the third tick of the scenario has run; the boulder rests
\* on the bottom row.
C6_Witness ==
    /\ Ticked
    /\ cur_time = timeout
    /\ \E b \in Cells :
          /\ b \div main_width = 2
          /\ AgentOutsideColumn(b)
          /\ OnlyRound(tick.push_pre, b - 2 * main_width, MOVING_BOULDER)
          /\ OnlyRound(grid, b - 2 * main_width, BOULDER)

\* The visit of idx finds a round object resting on a round object, off the
\* left and right edge, with its left pair and its right pair free.
BothSidesFree(idx) ==
    LET g == BeforeVisit(idx)
    IN  /\ is_round(g[idx])
        /\ idx - main_width \in Cells
        /\ is_round(g[idx - main_width])
        /\ idx % main_width > 0
        /\ idx % main_width < main_width - 1
        /\ FreeAt(g, idx - 1)
        /\ FreeAt(g, idx - main_width - 1)
        /\ FreeAt(g, idx + 1)
        /\ FreeAt(g, idx - main_width + 1)

\* The visit of idx moved the object to idx - 1 and not to idx + 1.
RolledLeft(idx) ==
    /\ AfterVisit(idx)[idx - 1] = get_stationary_type(BeforeVisit(idx)[idx])
    /\ AfterVisit(idx)[idx] = SPACE
    /\ AfterVisit(idx)[idx + 1] = SPACE

\* C7 (as claimed): an object that rests on a round object with both pairs
\* free when it is visited is moved to idx - 1, never to idx + 1.
C7_BothFreeRollsLeft ==
    Ticked => \A idx \in Cells : BothSidesFree(idx) => RolledLeft(idx)

\* C7 (amended): the same, unless the agent occupies the cell below and the
\* object holds a moving tag; then the visit signals the crush and moves
\* nothing.
C7_BothFreeRollsLeftUnlessCrush ==
    Ticked =>
        \A idx \in Cells :
            BothSidesFree(idx) =>
                IF tick.agent_idx = idx - main_width /\ is_moving(BeforeVisit(idx)[idx])
                THEN AfterVisit(idx) = BeforeVisit(idx) /\ step_data.done
                ELSE RolledLeft(idx)

\* C7 witness: an object with both pairs free was visited and rolled left.
C7_Witness ==
    /\ Ticked
    /\ \E idx \in Cells : BothSidesFree(idx) /\ RolledLeft(idx)

\* Where the visit of idx left the object it found there.
PlaceAfterVisit(idx) ==
    IF Branch(idx) = "left" THEN idx - 1
    ELSE IF Branch(idx) = "right" THEN idx + 1
    ELSE IF Branch(idx) = "fall" THEN idx - main_width
    ELSE idx

\* C8 (as claimed): an object visited with a moving tag whose cell below is
\* neither SPACE nor the agent's cell holds its stationary tag when the
\* tick ends, in its own cell or in the cell it rolled to; and when a
\* non-terminal tick ends every moving tag was written by a downward move
\* of that tick.
C8_BlockedMovingComesToRest ==
    Ticked =>
        /\ \A idx \in Cells :
              LET g == BeforeVisit(idx)
              IN  (/\ is_moving(g[idx])
                   /\ get_obj(g, idx - main_width) # SPACE
                   /\ tick.agent_idx # idx - main_width)
                      => grid[PlaceAfterVisit(idx)] = get_stationary_type(g[idx])
        /\ ~step_data.done =>
              \A c \in Cells :
                  is_moving(grid[c]) =>
                      /\ c + main_width \in Cells
                      /\ Branch(c + main_width) = "fall"

\* The completion bonus in the reward of the last step.
Bonus == IF step_data.level_complete THEN COMPLETION_BONUS ELSE 0

\* C9: during an episode the diamonds on the grid plus the diamond reward
\* granted so far is the number of diamonds placed at reset; a step takes a
\* diamond off the grid exactly when the agent's cell holds DIAMOND, and
\* that step adds DIAMOND_REWARD; clearing DIRT adds nothing.
C9_DiamondsAccounted ==
    /\ pc \in {"playing", "over"} =>
          Cardinality(DiamondCells(grid)) + (total_reward - Bonus) = num_diamonds
    /\ Ticked =>
          LET taken == IF tick.agent_obj = DIAMOND THEN 1 ELSE 0
          IN  /\ step_data.reward - Bonus = taken * DIAMOND_REWARD
              /\ Cardinality(DiamondCells(grid))
                    = Cardinality(DiamondCells(tick.push_pre)) - taken

\* C9 witness: the agent picked a diamond up in the last step.
C9_Witness ==
    /\ Ticked
    /\ tick.agent_obj = DIAMOND
    /\ step_data.reward = DIAMOND_REWARD
    /\ Cardinality(DiamondCells(grid)) = num_diamonds - 1

\* A level was just constructed and no step has run.
FreshLevel == pc = "playing" /\ cur_time = 0 /\ ~Ticked

\* C10: the cell game_reset picks for the exit has DIRT or the
\* out-of-bounds tag directly above it.
C10_ExitBelowDirtOrEdge ==
    FreshLevel => get_obj(grid, exit_cell + main_width) \in {DIRT, out_of_bounds_object}

\* C10 witness: a level whose exit lies below a dirt cell.
C10_Witness ==
    /\ FreshLevel
    /\ exit_cell \in Cells
    /\ get_obj(grid, exit_cell + main_width) = DIRT

\* ------------------------------------------------------- the BigFish game
\* bigfish.cpp.  Positions are cells of one horizontal line 0 .. MaxX (the
\* fish enter from the cells just outside it); radii are in units of
\* 1 / R_SCALE, which makes r_inc a whole number in both modes.
MaxX == 2
MaxFish == 2

POSITIVE_REWARD == 1
FISH_MAX_R == 2
FISH_QUOTA == 30
R_SCALE == 60

\* FISH_MIN_R = .25, the agent's start sizes and FISH_MAX_R.
FishSizes == {R_SCALE \div 4, R_SCALE \div 2, R_SCALE, FISH_MAX_R * R_SCALE}

Modes == {"EasyMode", "HardMode"}

\* game_reset: start_r and r_inc.
start_r(mode) == IF mode = "EasyMode" THEN R_SCALE ELSE R_SCALE \div 2

r_inc_for(mode) == (FISH_MAX_R * R_SCALE - start_r(mode)) \div FISH_QUOTA

\* The engine's overlap test on the line: the centres are closer than the
\* sum of the radii.
Abs(n) == IF n < 0 THEN -n ELSE n

overlaps(obj, ag) == Abs(obj.x - ag.x) * R_SCALE < obj.rx + ag.rx

\* handle_agent_collision, the test of line 116.
BigFish_is_eaten_by(obj, ag) == obj.rx > ag.rx /\ obj.x > ag.x

\* handle_agent_collision(obj) for obj->type == FISH.  c carries step_data,
\* the agent and fish_eaten; erase is obj->will_erase after the call.
BigFish_handle_agent_collision(c, obj, r_inc) ==
    IF BigFish_is_eaten_by(obj, c.agent)
    THEN [c EXCEPT !.sd.done = TRUE, !.erase = FALSE]
    ELSE [c EXCEPT !.sd.reward = @ + POSITIVE_REWARD,
                   !.erase = TRUE,
                   !.agent.rx = @ + r_inc,
                   !.agent.ry = @ + r_inc,
                   !.fish_eaten = @ + 1]

\* What a call of handle_agent_collision reads and writes.
CallState(c) == [sd |-> c.sd, agent |-> c.agent, fish_eaten |-> c.fish_eaten,
                 erase |-> c.erase]

\* The engine's collision pass over the entities, in list order.  hits
\* records each call: the fish and the state before and after the call
\* (erase is the fish's will_erase); kept holds the fish that stay.
RECURSIVE collide_from(_, _, _, _)
collide_from(c, fish, i, r_inc) ==
    IF i > Len(fish) THEN c
    ELSE LET obj == fish[i]
         IN  IF overlaps(obj, c.agent)
             THEN LET d == BigFish_handle_agent_collision(c, obj, r_inc)
                  IN  collide_from(
                          [d EXCEPT !.hits = Append(@, [obj |-> obj,
                                                        pre |-> CallState([c EXCEPT !.erase = FALSE]),
                                                        post |-> CallState(d)]),
                                    !.kept = IF d.erase THEN @ ELSE Append(@, obj)],
                          fish, i + 1, r_inc)
             ELSE collide_from([c EXCEPT !.kept = Append(@, obj)], fish, i + 1, r_inc)

\* The engine's motion: the agent moves one cell in the chosen direction
\* inside the line; a fish moves by its velocity and is dropped when it
\* leaves the line and its two entry cells.
move_big_agent(ag, action_vx) ==
    [ag EXCEPT !.x = IF ag.x + action_vx \in 0 .. MaxX THEN ag.x + action_vx ELSE ag.x]

move_fish(fish) ==
    SelectSeq([i \in 1 .. Len(fish) |-> [fish[i] EXCEPT !.x = @ + fish[i].vx]],
              LAMBDA f : f.x \in -1 .. (MaxX + 1))

\* game_step, lines 156-175: the fish that may be added, on the entry cell
\* of its direction.
NewFish == {[x |-> IF mr THEN -1 ELSE MaxX + 1, rx |-> r, vx |-> IF mr THEN 1 ELSE -1] :
                mr \in BOOLEAN, r \in FishSizes}

\* The quota test with a strict comparison.
quota_step_strict(sd, fish_eaten) ==
    IF fish_eaten > FISH_QUOTA
    THEN [done |-> TRUE, reward |-> sd.reward + COMPLETION_BONUS, level_complete |-> TRUE]
    ELSE sd

\* game_step, lines 177-183: the quota test.
quota_step(sd, fish_eaten) ==
    IF fish_eaten >= FISH_QUOTA
    THEN [done |-> TRUE, reward |-> sd.reward + COMPLETION_BONUS, level_complete |-> TRUE]
    ELSE sd

\* game_step, lines 186-191: the assignment of line 191 stands after the
\* empty block of the second test and runs in every step.
flip_agent(is_reflected, action_vx) == TRUE

\* BigFish::game_reset with the engine's part: no fish, a new agent at some
\* cell, then lines 134-149.
BigFish_game_reset ==
    /\ pc \in {"constructed", "over"}
    /\ pc' = "playing"
    /\ \E mode \in Modes, x \in 0 .. MaxX :
          big' = [fish_eaten |-> 0,
                  r_inc |-> r_inc_for(mode),
                  agent |-> [x |-> x, rx |-> start_r(mode), ry |-> start_r(mode),
                             is_reflected |-> FALSE],
                  fish |-> <<>>,
                  last |-> <<>>]
    /\ step_data' = [reward |-> 0, done |-> FALSE, level_complete |-> FALSE]
    /\ total_reward' = 0
    /\ UNCHANGED <<grid, agent, exit_cell, diamonds_remaining, cur_time, tick>>

\* BigFish::game_step with one move action; spawn is the fish added in
\* this step, if any.  The engine part runs first: step_data is cleared,
\* the agent and the fish move, the collisions are dispatched and the
\* erased fish dropped.
BigFish_game_step_result(b, move_action, spawn) ==
    LET action_vx == (move_action \div 3) - 1
        ag1 == move_big_agent(b.agent, action_vx)
        c0 == [sd |-> [reward |-> 0, done |-> FALSE, level_complete |-> FALSE],
               agent |-> ag1, fish_eaten |-> b.fish_eaten, erase |-> FALSE,
               hits |-> <<>>, kept |-> <<>>]
        c1 == collide_from(c0, move_fish(b.fish), 1, b.r_inc)
        fish2 == IF spawn = <<>> THEN c1.kept ELSE Append(c1.kept, spawn[1])
        sd2 == quota_step(c1.sd, c1.fish_eaten)
    IN  [big |-> [fish_eaten |-> c1.fish_eaten,
                  r_inc |-> b.r_inc,
                  agent |-> [c1.agent EXCEPT
                                !.is_reflected = flip_agent(@, action_vx)],
                  fish |-> fish2,
                  last |-> <<[action_vx |-> action_vx,
                              was_reflected |-> b.agent.is_reflected,
                              eaten_before |-> b.fish_eaten,
                              fish_moved |-> move_fish(b.fish),
                              spawned |-> spawn,
                              hits |-> c1.hits]>>],
         step_data |-> sd2]

BigFish_game_step(move_action) ==
    /\ pc = "playing"
    /\ \E spawn \in {<<>>} \cup {<<f>> : f \in NewFish} :
          /\ spawn # <<>> => Len(big.fish) < MaxFish
          /\ \E r \in {BigFish_game_step_result(big, move_action, spawn)} :
                /\ big' = r.big
                /\ step_data' = r.step_data
                /\ total_reward' = total_reward + r.step_data.reward
                /\ pc' = IF r.step_data.done THEN "over" ELSE "playing"
    /\ UNCHANGED <<grid, agent, exit_cell, diamonds_remaining, cur_time, tick>>

NextBig == BigFish_game_reset \/ \E m \in MoveActions : BigFish_game_step(m)

SpecBig == Init /\ [][NextBig]_vars

\* A BigFish game_step has run in this episode; its record.
BigTicked == big.last # <<>>

BigLast == big.last[1]

Hits == IF BigTicked THEN {BigLast.hits[i] : i \in 1 .. Len(BigLast.hits)} ELSE {}

\* The call left the fish uneaten: no reward, no growth, no count, no erasure.
NotEaten(h) ==
    /\ h.post.sd.reward = h.pre.sd.reward
    /\ h.post.agent = h.pre.agent
    /\ h.post.fish_eaten = h.pre.fish_eaten
    /\ ~h.post.erase

\* The call ate the fish.
Eaten(h) ==
    /\ h.post.sd.reward = h.pre.sd.reward + POSITIVE_REWARD
    /\ h.post.fish_eaten = h.pre.fish_eaten + 1
    /\ h.post.erase

\* C11 (as claimed): a collision with a fish whose rx is greater than the
\* agent's ends the episode and leaves the fish uneaten, wherever the fish
\* is relative to the agent.
C11_LargerFishEndsEpisode ==
    \A h \in Hits :
        h.obj.rx > h.pre.agent.rx => (h.post.sd.done /\ step_data.done /\ NotEaten(h))

\* The fish the last step ate.
EatenHits == {i \in 1 .. Len(BigLast.hits) : BigLast.hits[i].post.erase}

\* C12: every call of handle_agent_collision either leaves the fish
\* uneaten or adds POSITIVE_REWARD, increments fish_eaten and marks the
\* fish for erasure (the engine then drops it); fish_eaten is 0 after
\* game_reset; a step that ends with fish_eaten >= FISH_QUOTA sets done
\* and level_complete and adds COMPLETION_BONUS, and it is the first such
\* step; a step that ends with fish_eaten < FISH_QUOTA adds no bonus and
\* does not set level_complete.
C12_EatenFishAndQuota ==
    /\ (pc = "playing" /\ ~BigTicked) => big.fish_eaten = 0
    /\ BigTicked =>
          /\ \A h \in Hits : Eaten(h) \/ NotEaten(h)
          /\ big.fish_eaten = BigLast.eaten_before + Cardinality(EatenHits)
          /\ \A i \in EatenHits :
                \A j \in 1 .. Len(big.fish) : big.fish[j] # BigLast.hits[i].obj
          /\ Len(big.fish) = Len(BigLast.fish_moved) - Cardinality(EatenHits)
                                + Len(BigLast.spawned)
          /\ BigLast.eaten_before < FISH_QUOTA
          /\ IF big.fish_eaten >= FISH_QUOTA
             THEN /\ step_data.done
                  /\ step_data.level_complete
                  /\ step_data.reward = Cardinality(EatenHits) * POSITIVE_REWARD
                                          + COMPLETION_BONUS
             ELSE /\ ~step_data.level_complete
                  /\ step_data.reward = Cardinality(EatenHits) * POSITIVE_REWARD

\* C12 witness: the step in which the agent ate the fish that filled the
\* quota.
C12_Witness ==
    /\ BigTicked
    /\ EatenHits # {}
    /\ BigLast.eaten_before < FISH_QUOTA
    /\ big.fish_eaten >= FISH_QUOTA
    /\ step_data.level_complete

\* Where the object that was in cell c when the scan started is when the
\* scan ends: an object moves only when its own cell is visited, and only
\* a right roll puts it on a cell the loop has yet to visit.
EndPlace(c) ==
    IF Branch(c) = "right" THEN PlaceAfterVisit(c + 1) ELSE PlaceAfterVisit(c)

\* The grid and a cell index mirrored left to right.
MirrorCell(c) == (c \div main_width) * main_width + (main_width - 1 - (c % main_width))

Mirror(g) == [c \in Cells |-> g[MirrorCell(c)]]

\* The scan of the mirror image of the grid the last scan started from.
MirrorScan == scan_loop(Mirror(ScanStart), FALSE, MirrorCell(tick.agent_idx))

\* C13 (as claimed): in one tick every round object ends in its own cell
\* or one cell down, left or right of it; and where an object rolled left
\* and its mirror image rolls right, the mirror image ends one cell to the
\* right of its own cell, as the object ended one cell to the left.
C13_OneMovePerTick ==
    Ticked =>
        /\ \A c \in Cells :
              is_round(ScanStart[c]) => EndPlace(c) \in {c, c - main_width, c - 1, c + 1}
        /\ \A c \in Cells :
              (Branch(c) = "left" /\ MirrorScan[MirrorCell(c) + 2].branch = "right")
                  => /\ grid[c - 1] = get_stationary_type(ScanStart[c])
                     /\ MirrorScan[main_area + 1].grid[MirrorCell(c) + 1]
                            = get_stationary_type(ScanStart[c])

\* step_data.done before and after the visit of idx.
DoneBefore(idx) == tick.scan[idx + 1].done

DoneAfter(idx) == tick.scan[idx + 2].done

\* The visit of idx finds a round object directly above the agent.
AboveAgent(idx) == is_round(BeforeVisit(idx)[idx]) /\ tick.agent_idx = idx - main_width

\* C14: a visit of the scan sets the terminal flag exactly when it finds a
\* round object with a moving tag directly above the agent; the scan sets
\* it in no other way; a stationary BOULDER or DIAMOND directly above the
\* agent leaves the flag as it was, stays or rolls sideways, and leaves
\* the agent's cell as it was for the rest of the tick.
C14_CrushIffMovingAboveAgent ==
    Ticked =>
        /\ \A idx \in Cells :
              LET g == BeforeVisit(idx)
              IN  /\ (AboveAgent(idx) /\ is_moving(g[idx]))
                        => (DoneAfter(idx) /\ step_data.done)
                  /\ ~(AboveAgent(idx) /\ is_moving(g[idx]))
                        => DoneAfter(idx) = DoneBefore(idx)
                  /\ (AboveAgent(idx) /\ g[idx] \in {BOULDER, DIAMOND})
                        => /\ Branch(idx) \in {"left", "right", "rest"}
                           /\ PlaceAfterVisit(idx) # tick.agent_idx
                           /\ AfterVisit(idx)[tick.agent_idx] = g[tick.agent_idx]
                           /\ grid[tick.agent_idx] = g[tick.agent_idx]
        /\ step_data.done =
              (DoneBefore(0) \/ \E idx \in Cells :
                                  AboveAgent(idx) /\ is_moving(BeforeVisit(idx)[idx]))

\* C14 witness: the scan found a moving object above the agent and set
\* the flag, which was not set before.
C14_Witness ==
    /\ Ticked
    /\ ~DoneBefore(0)
    /\ step_data.done
    /\ \E idx \in Cells : AboveAgent(idx) /\ is_moving(BeforeVisit(idx)[idx])

\* With the agent at (ax, ay) a push in direction dir is due: the action
\* and the velocity allow it, the next cell of the row holds a stationary
\* BOULDER and the cell after it, still in the row, holds SPACE.
PushDue(g, ax, ay, action_vx, agent_vx, dir) ==
    /\ action_vx = dir
    /\ agent_vx = 0
    /\ ax + 2 * dir \in 0 .. (main_width - 1)
    /\ g[ay * main_width + ax + dir] = BOULDER
    /\ g[ay * main_width + ax + 2 * dir] = SPACE

\* C15: on the grid of any state, for every cell of the agent, action_vx
\* and agent.vx, handle_push moves the boulder and the agent one cell in
\* the direction of the action when a push is due and changes nothing
\* otherwise.
C15_PushEffect ==
    pc = "playing" =>
        \A ax \in 0 .. (main_width - 1), ay \in 0 .. (main_height - 1),
           action_vx \in {-1, 0, 1}, agent_vx \in {-1, 0, 1} :
            LET r == handle_push(grid, ax, ay, action_vx, agent_vx)
                a == ay * main_width + ax
            IN  IF \E dir \in {-1, 1} : PushDue(grid, ax, ay, action_vx, agent_vx, dir)
                THEN /\ r.grid = [c \in Cells |->
                                    IF c = a + action_vx THEN SPACE
                                    ELSE IF c = a + 2 * action_vx THEN BOULDER
                                    ELSE grid[c]]
                     /\ r.x = ax + action_vx
                ELSE r.grid = grid /\ r.x = ax

\* C15 witness: the last game_step pushed a boulder.
C15_Witness ==
    /\ Ticked
    /\ tick.action_vx # 0
    /\ agent.vx = 0
    /\ tick.push_post # tick.push_pre
    /\ tick.agent_idx = tick.agent_pre + tick.action_vx

\* The agent's cell.
AgentCell == get_agent_index(agent.x, agent.y)

\* C16 (as claimed): the cell game_reset selects for the exit holds DIRT
\* until it is cleared for the exit; the only cell of dirt_cells that does
\* not is the agent's start cell, so the exit is not on it.
C16_ExitOnDirtCell ==
    FreshLevel => exit_cell # AgentCell

\* The in-bounds cells of the 8-neighbourhood of cell a.
Neighbours(a) ==
    {c \in Cells \ {a} :
        /\ (c % main_width) - (a % main_width) \in {-1, 0, 1}
        /\ (c \div main_width) - (a \div main_width) \in {-1, 0, 1}}

\* C17: after game_reset the agent's start cell holds none of DIRT,
\* BOULDER, DIAMOND, and no cell of its 8-neighbourhood holds BOULDER;
\* the boulders and diamonds on the grid are at most those placed.
C17_StartCellCleared ==
    (pc \in {"playing", "aborted"} /\ cur_time = 0 /\ ~Ticked) =>
        /\ grid[AgentCell] \notin {DIRT, BOULDER, DIAMOND}
        /\ \A c \in Neighbours(AgentCell) : grid[c] # BOULDER
        /\ Cardinality(DiamondCells(grid)) = num_diamonds
        /\ Cardinality(BoulderCells(grid)) <= num_boulders

\* C17 witness: a level in which a boulder next to the agent's start cell
\* was replaced and a diamond next to it was left in place.
C17_Witness ==
    /\ FreshLevel
    /\ Cardinality(BoulderCells(grid)) < num_boulders
    /\ \E c \in Neighbours(AgentCell) : grid[c] = DIAMOND

\* The flag that follows the horizontal action.
flip_by_direction(is_reflected, action_vx) ==
    IF action_vx > 0 THEN FALSE
    ELSE IF action_vx < 0 THEN TRUE
    ELSE is_reflected

\* C18 (as claimed): when a BigFish game_step ends the agent's is_reflected
\* is false after action_vx > 0, true after action_vx < 0 and unchanged
\* after action_vx = 0.
C18_ReflectedFollowsAction ==
    BigTicked =>
        big.agent.is_reflected
            = flip_by_direction(BigLast.was_reflected, BigLast.action_vx)

\* C19 (as claimed): whenever a step grants the completion bonus or sets
\* level_complete, the grid holds no DIAMOND and no MOVING_DIAMOND, at the
\* collision and when the step ends.
C19_CompleteMeansNoDiamonds ==
    (Ticked /\ (step_data.level_complete \/ step_data.reward >= COMPLETION_BONUS)) =>
        /\ DiamondCells(tick.push_pre) = {}
        /\ DiamondCells(grid) = {}

\* C20: no visit of the scan writes a round tag into the agent's cell or
\* into a cell that does not hold SPACE, other than the visited cell
\* itself; a fall, a left roll and a right roll go to a cell that holds
\* SPACE and is not the agent's; and an object that left its cell, by one
\* move or by a right roll followed by a fall, is not in the agent's cell
\* when the scan ends.
C20_NeverIntoAgentOrOccupied ==
    Ticked =>
        /\ \A idx \in Cells :
              LET g == BeforeVisit(idx)
                  h == AfterVisit(idx)
              IN  /\ \A c \in Cells :
                        (h[c] # g[c] /\ is_round(h[c]))
                            => (c = idx \/ (g[c] = SPACE /\ c # tick.agent_idx))
                  /\ Branch(idx) \in {"fall", "left", "right"}
                        => /\ PlaceAfterVisit(idx) \in Cells \ {tick.agent_idx}
                           /\ g[PlaceAfterVisit(idx)] = SPACE
                           /\ is_round(h[PlaceAfterVisit(idx)])
                           /\ h[idx] = SPACE
        /\ \A c \in Cells :
              (is_round(ScanStart[c]) /\ EndPlace(c) # c) => EndPlace(c) # tick.agent_idx

\* C20 witness: the agent stands in an empty cell below a round object, or
\* beside one that could otherwise roll there, and the scan moved some
\* object elsewhere.
C20_Witness ==
    /\ Ticked
    /\ ScanStart[tick.agent_idx] = SPACE
    /\ \E idx \in Cells :
          /\ is_round(BeforeVisit(idx)[idx])
          /\ tick.agent_idx \in {idx - main_width, idx - 1, idx + 1}
          /\ AfterVisit(idx)[tick.agent_idx] = SPACE
    /\ \E idx \in Cells : Branch(idx) \in {"fall", "left", "right"}

\* ------------------------------------------------- repeated idle ticks
\* A third specification for what the scan does when it is left alone.
\* deserialize restores a saved game into a constructed one: every bounded
\* grid (as in InitScan), the agent on an empty cell, a whole episode of
\* steps ahead.  Then only the steps in which the agent keeps its cell,
\* pushes nothing and picks nothing up.
deserialize ==
    /\ pc = "constructed"
    /\ pc' = "playing"
    /\ cur_time' = 0
    /\ \E rs \in CellSetsUpTo(MaxRound), ds \in CellSetsUpTo(MaxDirt) :
          /\ rs \cap ds = {}
          /\ \E tg \in [rs -> RoundTags] :
                grid' = [c \in Cells |-> IF c \in rs THEN tg[c]
                                         ELSE IF c \in ds THEN DIRT
                                         ELSE SPACE]
    /\ MovingTagsPlaced(grid')
    /\ \E a \in Cells :
          /\ grid'[a] = SPACE
          /\ agent' = [x |-> a % main_width, y |-> a \div main_width, vx |-> 0, vy |-> 0]
    /\ exit_cell' \in {c \in 0 .. MaxExitCell : grid'[c] # DIRT}
    /\ diamonds_remaining' = Cardinality(DiamondCells(grid'))
    /\ (get_agent_index(agent'.x, agent'.y) = exit_cell') => diamonds_remaining' > 0
    /\ UNCHANGED <<step_data, total_reward, tick, big>>

\* The move actions without a direction: the agent keeps its cell, and
\* handle_push and the pickup find nothing to do on an empty cell.
IdleActions ==
    {m \in MoveActions : set_action_xy(m) = [action_vx |-> 0, action_vy |-> 0]}

\* Cap on the idle ticks of one run.  The engine's step limit is far above
\* the ticks a grid takes to come to rest; the scaled-down timeout is not,
\* so the idle ticks are counted against a cap of their own.
SettleTicks == 8

\* One game_step with an idle action, as game_step above but for the cap.
idle_step ==
    /\ pc = "playing"
    /\ cur_time < SettleTicks
    /\ \E m \in IdleActions :
          \E r \in {game_step_result(grid, agent, exit_cell, diamonds_remaining, m)} :
              /\ grid' = r.grid
              /\ agent' = r.agent
              /\ step_data' = r.step_data
              /\ diamonds_remaining' = r.diamonds_remaining
              /\ total_reward' = total_reward + r.step_data.reward
              /\ pc' = IF r.step_data.done THEN "over" ELSE "playing"
              /\ tick' = r.tick
    /\ cur_time' = cur_time + 1
    /\ UNCHANGED <<exit_cell, big>>

NextSettle == deserialize \/ idle_step

\* The caller's loop: while the episode is open it steps the environment,
\* which advances the step counter.  idle_step is the one action of
\* NextSettle that advances it, and a move action without a direction can
\* always be taken, so this is weak fairness of idle_step.
env_step == pc = "playing" /\ cur_time < SettleTicks /\ cur_time' = cur_time + 1

SpecSettle == Init /\ [][NextSettle]_vars /\ WF_cur_time(env_step)

\* No cell holds a moving tag and one more scan, with the agent where it
\* is, changes no cell.
Settled ==
    /\ \A c \in Cells : ~is_moving(grid[c])
    /\ LET tr == scan_loop(grid, FALSE, get_agent_index(agent.x, agent.y))
       IN  tr[Len(tr)].grid = grid

\* The episode was ended by an object landing on the agent.
CrushEnded == pc = "over" /\ Ticked /\ Crushed

\* C21: with the agent idle in one cell, repeated ticks lead to a grid
\* without moving tags that further ticks leave unchanged, and stay there,
\* unless a crush has ended the episode.
C21_IdleGridSettles == <>[](Settled \/ CrushEnded)

\* C21 witness: an object that fell in an earlier tick came to rest in the
\* last one, and the grid is settled.
C21_Witness ==
    /\ Ticked
    /\ Settled
    /\ \E idx \in Cells :
          /\ Branch(idx) = "rest"
          /\ is_moving(BeforeVisit(idx)[idx])
          /\ grid[idx] = get_stationary_type(BeforeVisit(idx)[idx])

====
